---- MODULE Spec2Model ----
(***************************************************************************)
(* A model of rootpy's tree layer (rootpy/tree.py: Tree, TreeChain,        *)
(* TreeBuffer) and of the HistFactory helpers (rootpy/fit/histfactory/     *)
(* utils.py: split_norm_shape, make_models, make_model, make_workspace).   *)
(*                                                                         *)
(* The module holds five state machines over disjoint groups of variables; *)
(* each specification runs one of them and parks the others:               *)
(*   SpecTree      Tree.__iter__                                           *)
(*   SpecChain     TreeChain.__init__, __initialize, __iter__              *)
(*   SpecBuffer    TreeBuffer.__init__                                     *)
(*   SpecSplit     split_norm_shape                                        *)
(*   SpecWorkspace make_models, make_model, make_workspace                 *)
(***************************************************************************)
EXTENDS Integers, Sequences, FiniteSets, TLC

VARIABLES
    \* ---- Tree ----
    tReads,      \* the tree's rows: tReads[i+1] is what GetEntry(i) returns
    gens,        \* the generators made by Tree.__iter__, in creation order
    \* ---- TreeChain ----
    heap,        \* the list objects: reference -> sequence of file names
    posOf,       \* ghost: reference -> original positions of the remaining entries
    orig,        \* ghost: the file names as given to TreeChain(...), in order
    argFiles,    \* the `files` argument of TreeChain(...)
    argBuffer,   \* the `buffer` argument of TreeChain(...)
    self,        \* the chain's instance dictionary (attribute -> value)
    cpc,         \* where the chain is: construction, between calls ("ready"), or the
                 \* step of __initialize / the row loop the running generator is at
    cgens,       \* the generators made by TreeChain.__iter__, in creation order,
                 \* each with its own frame and ghost record of rows and files
    active,      \* the generator that is running (0: none)
    fileName,    \* __initialize's local fileName
    openHandles, \* the handles of the files that are open
    nOpened,     \* number of File(...) calls so far (the next handle)
    popped,      \* ghost: list positions popped since construction
    exhausted,   \* ghost: some iteration ran to exhaustion
    callDepth,   \* the nested calls of __initialize the running generator is in
    room,        \* the room the interpreter's recursion limit leaves for such calls
    \* ---- TreeBuffer ----
    bArgs,       \* the `variables` argument: a sequence of <<name, type>>
    bFlatten,    \* the `flatten` argument
    bpc,         \* "loop", "built", or the exception construction ended with
    bk,          \* the index of the declaration the loop is at
    bData,       \* the local dictionary data: a set of <<name, cell kind>>
    bProcessed,  \* the local list processed
    bAttrs,      \* the attributes setattr put on the buffer
    bDict,       \* the buffer's own dictionary entries
    bCells,      \* ghost: the cells made, as <<index, name, cell kind>>
    \* ---- split_norm_shape ----
    hNominal,    \* nominal_hist
    hUp,         \* histosys.GetHistoHigh()
    hDn,         \* histosys.GetHistoLow()
    sOut,        \* what the call ended with
    \* ---- workspaces ----
    meas,        \* the measurements made, in creation order
    ws,          \* the workspaces made, in creation order
    keep         \* the references keepalive holds: <<workspace, measurement>>

treeVars  == <<tReads, gens>>
chainVars == <<heap, posOf, orig, argFiles, argBuffer, self, cpc, cgens,
               active, fileName, openHandles, nOpened, popped, exhausted,
               callDepth, room>>
bufferVars == <<bArgs, bFlatten, bpc, bk, bData, bProcessed, bAttrs, bDict,
                bCells>>
splitVars == <<hNominal, hUp, hDn, sOut>>
wsVars == <<meas, ws, keep>>
vars == <<treeVars, chainVars, bufferVars, splitVars, wsVars>>

\* ------------------------------------------------------------------ bounds
MaxRows  == 3
MaxGens  == 2
MaxFiles == 2
MaxIters == 2
MaxStale == 1
MaxRoom == 1
MaxVars  == 2
MaxBins  == 1
MaxMeasurements == 2
MaxWorkspaces == 3

\* ------------------------------------------------------------ sequences
Last(s) == s[Len(s)]
RemoveAt(s, k) == [j \in 1..(Len(s) - 1) |-> IF j < k THEN s[j] ELSE s[j + 1]]
Range(s) == {s[j] : j \in DOMAIN s}
NoDup(s) == \A a, b \in DOMAIN s : s[a] = s[b] => a = b
SeqsUpTo(S, n) == UNION {[1..k -> S] : k \in 0..n}

\* =================================================================== Tree
\* What TTree.GetEntry can return: the bytes read, 0 when the entry does not
\* exist, -1 on an I/O error.
ReadResults == {-1, 0, 4}

\* self.GetEntry(i) on a tree whose rows are `reads`
GetEntry(reads, i) == IF i + 1 \in DOMAIN reads THEN reads[i + 1] ELSE 0

\* Python's truth value of a number: `while self.GetEntry(i)`
Truthy(n) == n # 0

\* i = 0
FirstIndex == 0

\* i += 1
NextIndex(i) == i + 1

TreeInit ==
    /\ tReads \in SeqsUpTo(ReadResults, MaxRows)
    /\ gens = <<>>

TreeIdle ==
    /\ tReads = <<>>
    /\ gens = <<>>

\* iter(tree): a generator object, its body not yet entered
TreeIter ==
    /\ Len(gens) < MaxGens
    /\ gens' = Append(gens, [pc |-> "created", i |-> FirstIndex,
                             reads |-> <<>>, yields |-> <<>>])
    /\ UNCHANGED tReads

\* next(generator): run the body to its next yield or to its end
TreeNext(g) ==
    /\ g \in DOMAIN gens
    /\ gens[g].pc \in {"created", "yielded"}
    /\ LET i == IF gens[g].pc = "created" THEN FirstIndex
                ELSE NextIndex(gens[g].i)
           r == GetEntry(tReads, i)
       IN gens' = [gens EXCEPT ![g] =
                     [pc     |-> IF Truthy(r) THEN "yielded" ELSE "done",
                      i      |-> i,
                      reads  |-> Append(gens[g].reads, i),
                      yields |-> IF Truthy(r) THEN Append(gens[g].yields, i)
                                 ELSE gens[g].yields]]
    /\ UNCHANGED tReads

\* ============================================================== TreeChain
\* Python values held by attributes.  The first component is the type tag.
None         == <<"None">>
Str(x)       == <<"str", x>>
ListRef(r)   == <<"list", r>>
Buffer(S)    == <<"buffer", S>>
Cell(n)      == <<"cell", n>>
Float(w)     == <<"float", w>>
FileObj(h, f) == <<"File", h, f>>
TreeObj(h, f) == <<"Tree", h, f>>
NullObj      == <<"null">>

\* The files on disk that the model iterates over: whether File(name) opens,
\* whether it holds the named tree, the tree's branches, its rows (what
\* GetEntry returns per index) and its weight.
FileNames == {"ok2", "missing", "notree", "nobranches", "nopt"}
Disk(f) ==
    CASE f = "ok2"        -> [opens |-> TRUE,  hasTree |-> TRUE,
                              branches |-> {"pt", "eta", "weight"},
                              reads |-> <<4, 4>>, weight |-> 2]
      [] f = "missing"    -> [opens |-> FALSE, hasTree |-> FALSE,
                              branches |-> {}, reads |-> <<>>, weight |-> 0]
      [] f = "notree"     -> [opens |-> TRUE,  hasTree |-> FALSE,
                              branches |-> {}, reads |-> <<>>, weight |-> 0]
      [] f = "nobranches" -> [opens |-> TRUE,  hasTree |-> TRUE,
                              branches |-> {}, reads |-> <<4>>, weight |-> 5]
      [] OTHER            -> [opens |-> TRUE,  hasTree |-> TRUE,
                              branches |-> {"eta"},
                              reads |-> <<4>>, weight |-> 7]

\* The buffers a chain is constructed with: none, an empty one, and buffers
\* whose branch names include names the chain uses for itself.
BufferChoices ==
    {None, Buffer({}), Buffer({"weight", "pt"}), Buffer({"files", "pt"})}

\* Python's truth value of the objects the chain tests
BufferTruth(b) == b[1] = "buffer" /\ b[2] # {}
FileTruth(v)   == v[1] = "File" /\ Disk(v[3]).opens
TreeTruth(v)   == v[1] = "Tree"

\* buffer.items(): the names of a buffer known to be true
Items(b) == b[2]

\* The attributes of the class TreeChain (an old-style class), which dir()
\* of an instance lists besides the instance's own.
ClassAttrs == {"__doc__", "__init__", "__iter__", "__module__",
               "_TreeChain__initialize"}

\* dir(self)
Dir(s) == DOMAIN s \cup ClassAttrs

\* setattr(self, n, v)
SetAttr(s, n, v) == [x \in DOMAIN s \cup {n} |-> IF x = n THEN v ELSE s[x]]

\* the orders in which a dictionary's items() can list the names S: Python 2
\* orders a dict by the hashes of its keys, which the program does not fix
Orders(S) == {o \in [1..Cardinality(S) -> S] : \A n \in S : \E j \in DOMAIN o : o[j] = n}

\* self.buffer.items() under `if self.buffer:` (lines 76-77): the orders the
\* loop can take the names in; no name when the buffer is false
ItemOrders(b) == IF BufferTruth(b) THEN Orders(Items(b)) ELSE {<<>>}

\* for name, value in self.buffer.items(): ... (lines 77-80), the names taken
\* in the order given.  The result is the instance dictionary and whether
\* every name was accepted: the first refused name raises ValueError and
\* leaves the names before it bound.
RECURSIVE BindBranches(_, _)
BindBranches(s, order) ==
    IF order = <<>> THEN [ok |-> TRUE, dict |-> s]
    ELSE LET n == Head(order)
         IN IF n \notin Dir(s)
               THEN BindBranches(SetAttr(s, n, Cell(n)), Tail(order))
               ELSE [ok |-> FALSE, dict |-> s]

\* self.weight = 1.; self.tree = None; self.file = None (lines 81-83)
InitFields(s) ==
    SetAttr(SetAttr(SetAttr(s, "weight", Float(1)), "tree", None), "file", None)

\* if type(files) is not list: files = [files]; self.files = files.
\* The list object self.files refers to, given the heap.
FilesAttrCopy(arg, h) == Len(h) + 1
FilesAttr(arg, h) == IF arg[1] = "list" THEN arg[2] ELSE Len(h) + 1

\* The heap after that assignment: a new list object when one was made.
HeapAfterInit(arg, h, r) ==
    IF r \in DOMAIN h THEN h
    ELSE Append(h, IF arg[1] = "list" THEN h[arg[2]] ELSE <<arg[2]>>)

\* list.pop(): the index it removes
PopIndex(l) == Len(l)

\* file.Close(): the open handles afterwards
ClosedLeak(open, v) == open
Closed(open, v) == IF v[1] = "File" THEN open \ {v[2]} ELSE open

\* File(fileName): the open handles afterwards
Opened(open, h, f) == IF Disk(f).opens THEN open \cup {h} ELSE open

\* The room for nested calls.  Every skip is a recursive call, `return
\* self.__initialize()` (lines 97, 101, 106, 112), and each call in turn
\* calls File(fileName) (line 94).  The interpreter's recursion limit
\* (sys.setrecursionlimit, 1000 frames unless changed) decides how many
\* nested calls of __initialize get through that File() call: under the
\* default limit every call the lists iterated here can lead to, under a
\* limit of n such calls the first n.  The chains run under the default
\* limit or under a limit with room for MaxRoom calls.
DefaultRoom == <<"default">>
Frames(n) == <<"frames", n>>
Rooms == {DefaultRoom, Frames(MaxRoom)}

\* the d-th nested call of __initialize can make its call File(fileName)
HasRoom(rm, d) == IF rm = DefaultRoom THEN TRUE ELSE d <= rm[2]

\* A generator made by TreeChain.__iter__, its body not yet entered.  tree
\* and i are the locals of the Tree.__iter__ generator its row loop runs
\* on (`for entry in self.tree` binds the tree object once, i counts rows).
NewGen == [pc |-> "created", tree |-> None, i |-> FirstIndex,
           pos |-> 0, rows |-> <<>>, taken |-> <<>>,
           clean |-> TRUE, late |-> FALSE, stale |-> 0]

ChainInit ==
    /\ \/ \E l \in SeqsUpTo(FileNames, MaxFiles) :
            /\ argFiles = ListRef(1)
            /\ heap = <<l>>
            /\ posOf = <<[j \in 1..Len(l) |-> j]>>
            /\ orig = l
       \/ \E f \in FileNames :
            /\ argFiles = Str(f)
            /\ heap = <<>>
            /\ posOf = <<>>
            /\ orig = <<f>>
    /\ argBuffer \in BufferChoices
    /\ self = [x \in {} |-> None]
    /\ cpc = "new"
    /\ cgens = <<>>
    /\ active = 0
    /\ fileName = ""
    /\ openHandles = {}
    /\ nOpened = 0
    /\ popped = <<>>
    /\ exhausted = FALSE
    /\ callDepth = 0
    /\ room \in Rooms

ChainIdle ==
    /\ argFiles = Str("")
    /\ heap = <<>>
    /\ posOf = <<>>
    /\ orig = <<>>
    /\ argBuffer = None
    /\ self = [x \in {} |-> None]
    /\ cpc = "idle"
    /\ cgens = <<>>
    /\ active = 0
    /\ fileName = ""
    /\ openHandles = {}
    /\ nOpened = 0
    /\ popped = <<>>
    /\ exhausted = FALSE
    /\ callDepth = 0
    /\ room = DefaultRoom

\* TreeChain.__init__ (lines 68-83)
ChainConstruct ==
    /\ cpc = "new"
    /\ \E order \in ItemOrders(argBuffer) :
         LET r  == FilesAttr(argFiles, heap)
             s0 == [x \in {"treeName", "files", "buffer"} |->
                      CASE x = "treeName" -> Str("tree")
                        [] x = "files"    -> ListRef(r)
                        [] OTHER          -> argBuffer]
             b  == BindBranches(s0, order)
         IN /\ heap' = HeapAfterInit(argFiles, heap, r)
            /\ posOf' = IF r \in DOMAIN heap THEN posOf
                        ELSE Append(posOf, [j \in 1..Len(heap'[r]) |-> j])
            /\ IF b.ok
                  THEN /\ cpc' = "ready"
                       /\ self' = InitFields(b.dict)
                  ELSE /\ cpc' = "ValueError"
                       /\ self' = b.dict
    /\ UNCHANGED <<orig, argFiles, argBuffer, room, cgens, active, fileName,
                   openHandles, nOpened, popped, exhausted, callDepth>>

\* iter(chain): calling the generator function __iter__ (line 119) makes a
\* generator object and runs none of its body
ChainIter ==
    /\ cpc = "ready"
    /\ Len(cgens) < MaxIters
    /\ cgens' = Append(cgens, NewGen)
    /\ UNCHANGED <<heap, posOf, orig, argFiles, argBuffer, room, self, cpc, active,
                   fileName, openHandles, nOpened, popped, exhausted, callDepth>>

\* the first next(generator): the body is entered at `while
\* self.__initialize()` (line 121)
ChainEnter(g) ==
    /\ cpc = "ready"
    /\ g \in DOMAIN cgens
    /\ cgens[g].pc = "created"
    /\ cgens' = [cgens EXCEPT ![g].pc = "running", ![g].late = exhausted]
    /\ active' = g
    /\ cpc' = "reset"
    /\ callDepth' = 1
    /\ UNCHANGED <<heap, posOf, orig, argFiles, argBuffer, room, self, fileName,
                   openHandles, nOpened, popped, exhausted>>

\* next(generator) after a yield: the generator picks up in its own row
\* loop, i += 1 (line 37)
ChainResume(g) ==
    /\ cpc = "ready"
    /\ g \in DOMAIN cgens
    /\ cgens[g].pc = "yielded"
    /\ cgens' = [cgens EXCEPT ![g].pc = "running",
                              ![g].i = NextIndex(cgens[g].i)]
    /\ active' = g
    /\ cpc' = "loop"
    /\ UNCHANGED <<heap, posOf, orig, argFiles, argBuffer, room, self, fileName,
                   openHandles, nOpened, popped, exhausted, callDepth>>

\* __initialize, lines 87-91: drop the tree, close and drop the file.  The
\* generators suspended in a row loop keep the tree they were reading
\* (ghost: they are no longer `clean`).
InitializeReset ==
    /\ cpc = "reset"
    /\ openHandles' = IF self["file"] # None
                         THEN Closed(openHandles, self["file"])
                         ELSE openHandles
    /\ self' = [self EXCEPT !["tree"] = None, !["file"] = None]
    /\ cgens' = [g \in DOMAIN cgens |->
                   IF g # active /\ cgens[g].pc = "yielded"
                      THEN [cgens[g] EXCEPT !.clean = FALSE]
                      ELSE cgens[g]]
    /\ cpc' = "select"
    /\ UNCHANGED <<heap, posOf, orig, argFiles, argBuffer, room, active, fileName,
                   nOpened, popped, exhausted, callDepth>>

\* __initialize, lines 92-94: take a file name off the list and open it
InitializeSelect ==
    /\ cpc = "select"
    /\ HasRoom(room, callDepth)
    /\ LET r == self["files"][2] IN
       /\ Len(heap[r]) > 0
       /\ LET k == PopIndex(heap[r]) IN
          /\ fileName' = heap[r][k]
          /\ heap' = [heap EXCEPT ![r] = RemoveAt(heap[r], k)]
          /\ posOf' = [posOf EXCEPT ![r] = RemoveAt(posOf[r], k)]
          /\ cgens' = [cgens EXCEPT ![active].taken = Append(@, posOf[r][k])]
          /\ popped' = Append(popped, posOf[r][k])
          /\ self' = [self EXCEPT !["file"] = FileObj(nOpened, heap[r][k])]
          /\ openHandles' = Opened(openHandles, nOpened, heap[r][k])
          /\ nOpened' = nOpened + 1
    /\ cpc' = "validate"
    /\ UNCHANGED <<orig, argFiles, argBuffer, room, active, exhausted, callDepth>>

\* __initialize, lines 92-94 with no room left: the name is popped and the
\* call File(fileName) raises RuntimeError (maximum recursion depth
\* exceeded); self.file stays None as line 91 left it
InitializeOverflow ==
    /\ cpc = "select"
    /\ ~HasRoom(room, callDepth)
    /\ LET r == self["files"][2] IN
       /\ Len(heap[r]) > 0
       /\ LET k == PopIndex(heap[r]) IN
          /\ fileName' = heap[r][k]
          /\ heap' = [heap EXCEPT ![r] = RemoveAt(heap[r], k)]
          /\ posOf' = [posOf EXCEPT ![r] = RemoveAt(posOf[r], k)]
          /\ cgens' = [cgens EXCEPT ![active].taken = Append(@, posOf[r][k])]
          /\ popped' = Append(popped, posOf[r][k])
    /\ cpc' = "RuntimeError"
    /\ UNCHANGED <<orig, argFiles, argBuffer, room, self, active, openHandles,
                   nOpened, exhausted, callDepth>>

\* __initialize, line 117: no file is left, return False
InitializeExhausted ==
    /\ cpc = "select"
    /\ Len(heap[self["files"][2]]) = 0
    /\ cpc' = "stop"
    /\ UNCHANGED <<heap, posOf, orig, argFiles, argBuffer, room, self, cgens, active,
                   fileName, openHandles, nOpened, popped, exhausted, callDepth>>

\* __initialize returned False: the while loop of __iter__ ends (line 121)
\* and the generator with it
ChainStop ==
    /\ cpc = "stop"
    /\ cgens' = [cgens EXCEPT ![active].pc = "done"]
    /\ active' = 0
    /\ cpc' = "ready"
    /\ exhausted' = TRUE
    /\ callDepth' = 0
    /\ UNCHANGED <<heap, posOf, orig, argFiles, argBuffer, room, self, fileName,
                   openHandles, nOpened, popped>>

\* the RuntimeError leaves every frame of __initialize and __iter__: the
\* generator is finished and next(generator) raises; the chain stays as
\* line 93 left it
ChainRaise ==
    /\ cpc = "RuntimeError"
    /\ cgens' = [cgens EXCEPT ![active].pc = "RuntimeError"]
    /\ active' = 0
    /\ cpc' = "ready"
    /\ callDepth' = 0
    /\ UNCHANGED <<heap, posOf, orig, argFiles, argBuffer, room, self, fileName,
                   openHandles, nOpened, popped, exhausted>>

\* __initialize, lines 95-97: the file did not open
SkipUnopened ==
    /\ cpc = "validate"
    /\ ~FileTruth(self["file"])
    /\ cpc' = "reset"
    /\ callDepth' = callDepth + 1
    /\ UNCHANGED <<heap, posOf, orig, argFiles, argBuffer, room, self, cgens, active,
                   fileName, openHandles, nOpened, popped, exhausted>>

\* self.file.Get(self.treeName): the tree lives in the file of handle h
Get(h, f) == IF Disk(f).hasTree THEN TreeObj(h, f) ELSE NullObj

\* the tree __initialize has just fetched
CurrentTree == Get(self["file"][2], fileName)

\* __initialize, lines 98-101: the file holds no tree of that name
SkipNoTree ==
    /\ cpc = "validate"
    /\ FileTruth(self["file"])
    /\ ~TreeTruth(CurrentTree)
    /\ self' = [self EXCEPT !["tree"] = CurrentTree]
    /\ cpc' = "reset"
    /\ callDepth' = callDepth + 1
    /\ UNCHANGED <<heap, posOf, orig, argFiles, argBuffer, room, cgens, active,
                   fileName, openHandles, nOpened, popped, exhausted>>

\* __initialize, lines 103-106: the tree has no branches
SkipNoBranches ==
    /\ cpc = "validate"
    /\ FileTruth(self["file"])
    /\ TreeTruth(CurrentTree)
    /\ Cardinality(Disk(fileName).branches) = 0
    /\ self' = [self EXCEPT !["tree"] = CurrentTree]
    /\ cpc' = "reset"
    /\ callDepth' = callDepth + 1
    /\ UNCHANGED <<heap, posOf, orig, argFiles, argBuffer, room, cgens, active,
                   fileName, openHandles, nOpened, popped, exhausted>>

\* if not self.tree.GetBranch(branch), for some branch of the buffer
SomeBranchMissing(b, f) ==
    BufferTruth(b) /\ \E n \in Items(b) : n \notin Disk(f).branches

\* __initialize, lines 107-112: a branch of the buffer is not in the tree
SkipMissingBranch ==
    /\ cpc = "validate"
    /\ FileTruth(self["file"])
    /\ TreeTruth(CurrentTree)
    /\ Cardinality(Disk(fileName).branches) # 0
    /\ SomeBranchMissing(self["buffer"], fileName)
    /\ self' = [self EXCEPT !["tree"] = CurrentTree]
    /\ cpc' = "reset"
    /\ callDepth' = callDepth + 1
    /\ UNCHANGED <<heap, posOf, orig, argFiles, argBuffer, room, cgens, active,
                   fileName, openHandles, nOpened, popped, exhausted>>

\* __initialize, lines 113-116: the tree is accepted, return True; __iter__
\* starts `for entry in self.tree` (line 122): the running generator gets a
\* Tree.__iter__ generator on that tree object, i = 0
InitializeAccept ==
    /\ cpc = "validate"
    /\ FileTruth(self["file"])
    /\ TreeTruth(CurrentTree)
    /\ Cardinality(Disk(fileName).branches) # 0
    /\ ~SomeBranchMissing(self["buffer"], fileName)
    /\ self' = [self EXCEPT !["tree"] = CurrentTree,
                            !["weight"] = Float(Disk(fileName).weight)]
    /\ cgens' = [cgens EXCEPT ![active].tree = CurrentTree,
                              ![active].pos = Last(cgens[active].taken),
                              ![active].i = FirstIndex]
    /\ cpc' = "loop"
    /\ callDepth' = 0
    /\ UNCHANGED <<heap, posOf, orig, argFiles, argBuffer, room, active, fileName,
                   openHandles, nOpened, popped, exhausted>>

\* the tree object t is still there: its file is open
Live(open, t) == t[2] \in open

\* What a GetEntry(i) call on tree object t can do.  A tree belongs to its
\* file: while the file is open the call returns what the tree holds; once
\* the file has been closed the tree object is gone and the call on the
\* stale reference can return anything or end the process.
ReadOutcomes(open, t, i) ==
    IF Live(open, t)
       THEN {<<"read", GetEntry(Disk(t[3]).reads, i)>>}
       ELSE {<<"read", n>> : n \in ReadResults} \cup {<<"crash">>}

\* Tree.__iter__ under the chain: while self.GetEntry(i): yield self (line
\* 36), which the chain's generator passes on (line 123).  The rows a
\* generator is given by a stale tree are counted and capped by MaxStale.
ChainYield ==
    /\ cpc = "loop"
    /\ LET G == cgens[active] IN
       /\ \E o \in ReadOutcomes(openHandles, G.tree, G.i) :
             o[1] = "read" /\ Truthy(o[2])
       /\ Live(openHandles, G.tree) \/ G.stale < MaxStale
       /\ cgens' = [cgens EXCEPT
                      ![active].pc = "yielded",
                      ![active].rows = Append(@, <<G.pos, G.tree[3], G.i>>),
                      ![active].stale = IF Live(openHandles, G.tree)
                                           THEN @ ELSE @ + 1]
    /\ active' = 0
    /\ cpc' = "ready"
    /\ UNCHANGED <<heap, posOf, orig, argFiles, argBuffer, room, self, fileName,
                   openHandles, nOpened, popped, exhausted, callDepth>>

\* Tree.__iter__ under the chain: GetEntry(i) is false, the tree is done and
\* the while loop of __iter__ calls __initialize again
ChainTreeDone ==
    /\ cpc = "loop"
    /\ LET G == cgens[active] IN
       \E o \in ReadOutcomes(openHandles, G.tree, G.i) :
          o[1] = "read" /\ ~Truthy(o[2])
    /\ cpc' = "reset"
    /\ callDepth' = 1
    /\ UNCHANGED <<heap, posOf, orig, argFiles, argBuffer, room, self, cgens, active,
                   fileName, openHandles, nOpened, popped, exhausted>>

\* Tree.__iter__ under the chain: GetEntry(i) on a stale tree ends the process
ChainCrash ==
    /\ cpc = "loop"
    /\ LET G == cgens[active] IN
       \E o \in ReadOutcomes(openHandles, G.tree, G.i) : o[1] = "crash"
    /\ cgens' = [cgens EXCEPT ![active].pc = "crashed"]
    /\ cpc' = "crashed"
    /\ UNCHANGED <<heap, posOf, orig, argFiles, argBuffer, room, self, active,
                   fileName, openHandles, nOpened, popped, exhausted, callDepth>>

\* ============================================================= TreeBuffer
\* A Python string is modelled as the sequence of its characters, so that
\* upper(), startswith() and dictionary lookup work on what is spelled.
LowerCase == <<"a", "b", "c", "d", "e", "f", "g", "h", "i", "j", "k", "l", "m",
               "n", "o", "p", "q", "r", "s", "t", "u", "v", "w", "x", "y", "z">>
UpperCase == <<"A", "B", "C", "D", "E", "F", "G", "H", "I", "J", "K", "L", "M",
               "N", "O", "P", "Q", "R", "S", "T", "U", "V", "W", "X", "Y", "Z">>

\* str.upper() on one character and on a string
UpperChar(c) ==
    IF \E k \in DOMAIN LowerCase : LowerCase[k] = c
       THEN UpperCase[CHOOSE k \in DOMAIN LowerCase : LowerCase[k] = c]
       ELSE c
Upper(s) == [j \in DOMAIN s |-> UpperChar(s[j])]

\* name.startswith("_")
StartsWithUnderscore(s) == Len(s) > 0 /\ s[1] = "_"

\* The dictionary display TreeBuffer.demote, its key : value pairs in the
\* order they are written (lines 132-150).
demotePairs == <<    <<<<"F", "l", "o", "a", "t", "_", "T">>,
      <<"F">>>>,
    <<<<"I", "n", "t", "_", "T">>,
      <<"I">>>>,
    <<<<"I", "n", "t">>,
      <<"I">>>>,
    <<<<"F", "l", "o", "a", "t">>,
      <<"F">>>>,
    <<<<"F">>,
      <<"F">>>>,
    <<<<"I">>,
      <<"I">>>>,
    <<<<"U", "I">>,
      <<"U", "I">>>>,
    <<<<"v", "e", "c", "t", "o", "r", "<", "f", "l", "o", "a", "t", ">">>,
      <<"F">>>>,
    <<<<"v", "e", "c", "t", "o", "r", "<", "i", "n", "t", ">">>,
      <<"I">>>>,
    <<<<"v", "e", "c", "t", "o", "r", "<", "i", "n", "t", ",", " ", "a", "l", "l", "o", "c", "a", "t", "o", "r", "<", "i", "n", "t", ">", " ", ">">>,
      <<"I">>>>,
    <<<<"v", "e", "c", "t", "o", "r", "<", "f", "l", "o", "a", "t", ",", " ", "a", "l", "l", "o", "c", "a", "t", "o", "r", "<", "f", "l", "o", "a", "t", ">", " ", ">">>,
      <<"F">>>>,
    <<<<"V", "F">>,
      <<"F">>>>,
    <<<<"V", "I">>,
      <<"I">>>>,
    <<<<"v", "e", "c", "t", "o", "r", "<", "v", "e", "c", "t", "o", "r", "<", "f", "l", "o", "a", "t", ">", " ", ">">>,
      <<"V", "F">>>>,
    <<<<"v", "e", "c", "t", "o", "r", "<", "v", "e", "c", "t", "o", "r", "<", "f", "l", "o", "a", "t", ">", " ", ">">>,
      <<"V", "I">>>>,
    <<<<"v", "e", "c", "t", "o", "r", "<", "v", "e", "c", "t", "o", "r", "<", "i", "n", "t", ">", ",", " ", "a", "l", "l", "o", "c", "a", "t", "o", "r", "<", "v", "e", "c", "t", "o", "r", "<", "i", "n", "t", ">", " ", ">", " ", ">">>,
      <<"V", "I">>>>,
    <<<<"v", "e", "c", "t", "o", "r", "<", "v", "e", "c", "t", "o", "r", "<", "f", "l", "o", "a", "t", ">", ",", " ", "a", "l", "l", "o", "c", "a", "t", "o", "r", "<", "v", "e", "c", "t", "o", "r", "<", "f", "l", "o", "a", "t", ">", " ", ">", " ", ">">>,
      <<"V", "F">>>>,
    <<<<"V", "V", "F">>,
      <<"V", "F">>>>,
    <<<<"V", "V", "I">>,
      <<"V", "I">>>>>>

\* A dictionary display evaluates its pairs left to right, each storing its
\* value under its key: a key written twice keeps the later value.
DictHas(pairs, k) == \E j \in DOMAIN pairs : pairs[j][1] = k
DictGet(pairs, k) ==
    pairs[CHOOSE j \in DOMAIN pairs :
            /\ pairs[j][1] = k
            /\ \A m \in DOMAIN pairs : pairs[m][1] = k => m <= j][2]

\* The tuples the upper-cased type is tested against (lines 164-177), and
\* the cell made for a match.  "" stands for no match.
CellKind(u) ==
    CASE u \in {<<"I">>, <<"I", "N", "T", "_", "T">>} -> "Int"
      [] u \in {<<"U", "I">>, <<"U", "I", "N", "T", "_", "T">>} -> "UInt"
      [] u \in {<<"F">>, <<"F", "L", "O", "A", "T", "_", "T">>} -> "Float"
      [] u \in {<<"V", "I">>,
                <<"V", "E", "C", "T", "O", "R", "<", "I", "N", "T", ">">>} -> "vector<int>"
      [] u \in {<<"V", "F">>,
                <<"V", "E", "C", "T", "O", "R", "<", "F", "L", "O", "A", "T", ">">>} -> "vector<float>"
      [] u \in {<<"V", "V", "I">>,
                <<"V", "E", "C", "T", "O", "R", "<", "V", "E", "C", "T", "O", "R", "<", "I", "N", "T", ">", " ", ">">>}
            -> "vector<vector<int> >"
      [] u \in {<<"V", "V", "F">>,
                <<"V", "E", "C", "T", "O", "R", "<", "V", "E", "C", "T", "O", "R", "<", "F", "L", "O", "A", "T", ">", " ", ">">>}
            -> "vector<vector<float> >"
      [] OTHER -> ""

\* methods = dir(self): the names of a TreeBuffer instance that do not start
\* with an underscore (those that do are refused by the prefix test): the
\* methods of dict and the class's own demote and reset.
Methods == {
    <<"c", "l", "e", "a", "r">>,
    <<"c", "o", "p", "y">>,
    <<"f", "r", "o", "m", "k", "e", "y", "s">>,
    <<"g", "e", "t">>,
    <<"h", "a", "s", "_", "k", "e", "y">>,
    <<"i", "t", "e", "m", "s">>,
    <<"i", "t", "e", "r", "i", "t", "e", "m", "s">>,
    <<"i", "t", "e", "r", "k", "e", "y", "s">>,
    <<"i", "t", "e", "r", "v", "a", "l", "u", "e", "s">>,
    <<"k", "e", "y", "s">>,
    <<"p", "o", "p">>,
    <<"p", "o", "p", "i", "t", "e", "m">>,
    <<"s", "e", "t", "d", "e", "f", "a", "u", "l", "t">>,
    <<"u", "p", "d", "a", "t", "e">>,
    <<"v", "a", "l", "u", "e", "s">>,
    <<"v", "i", "e", "w", "i", "t", "e", "m", "s">>,
    <<"v", "i", "e", "w", "k", "e", "y", "s">>,
    <<"v", "i", "e", "w", "v", "a", "l", "u", "e", "s">>,
    <<"d", "e", "m", "o", "t", "e">>,
    <<"r", "e", "s", "e", "t">>}

\* The variable names and type spellings construction is tried with.
VarNames == {<<"a">>, <<"b">>, <<"k", "e", "y", "s">>, <<"_", "x">>}
T_I == <<"I">>
T_int_t == <<"i", "n", "t", "_", "t">>
T_Int == <<"I", "n", "t">>
T_UI == <<"U", "I">>
T_vvfloat == <<"v", "e", "c", "t", "o", "r", "<", "v", "e", "c", "t", "o", "r", "<", "f", "l", "o", "a", "t", ">", " ", ">">>
T_VVF == <<"V", "V", "F">>
T_vvint == <<"v", "e", "c", "t", "o", "r", "<", "v", "e", "c", "t", "o", "r", "<", "i", "n", "t", ">", " ", ">">>
T_vfloat == <<"v", "e", "c", "t", "o", "r", "<", "f", "l", "o", "a", "t", ">">>
T_vint == <<"v", "e", "c", "t", "o", "r", "<", "i", "n", "t", ">">>
T_double == <<"d", "o", "u", "b", "l", "e">>
Spellings == {T_I, T_int_t, T_Int, T_UI, T_vvfloat, T_VVF, T_vvint, T_vfloat, T_double}

\* vtype = TreeBuffer.demote[vtype] (line 159): whether the key is there, and
\* the type the body goes on with
HasDemoteKey(vtype, flatten) == ~flatten \/ DictHas(demotePairs, vtype)
Demoted(vtype, flatten) ==
    IF flatten THEN DictGet(demotePairs, vtype) ELSE vtype

\* if name in processed (line 160)
DuplicateNameNever(name, processed) == FALSE
DuplicateName(name, processed) == name \in Range(processed)

\* name not in methods and not name.startswith("_") (line 180)
NameAllowed(name) == name \notin Methods /\ ~StartsWithUnderscore(name)

\* data[name] = cell
DictSet(d, k, v) == {p \in d : p[1] # k} \cup {<<k, v>>}

Decls == VarNames \X Spellings

BufferInit ==
    /\ bArgs \in SeqsUpTo(Decls, MaxVars)
    /\ bFlatten \in BOOLEAN
    /\ bpc = "loop"
    /\ bk = 1
    /\ bData = {}
    /\ bProcessed = <<>>
    /\ bAttrs = {}
    /\ bDict = {}
    /\ bCells = <<>>

BufferIdle ==
    /\ bArgs = <<>>
    /\ bFlatten = FALSE
    /\ bpc = "idle"
    /\ bk = 1
    /\ bData = {}
    /\ bProcessed = <<>>
    /\ bAttrs = {}
    /\ bDict = {}
    /\ bCells = <<>>

\* The loop body (lines 157-183) on the declaration at bk, by its outcome.
\* flatten is on and the type is no key of demote: KeyError (line 159)
BufferKeyError ==
    /\ bpc = "loop" /\ bk <= Len(bArgs)
    /\ ~HasDemoteKey(bArgs[bk][2], bFlatten)
    /\ bpc' = "KeyError"
    /\ UNCHANGED <<bArgs, bFlatten, bk, bData, bProcessed, bAttrs, bDict, bCells>>

\* the name was processed before: ValueError (lines 160-161)
BufferDuplicate ==
    /\ bpc = "loop" /\ bk <= Len(bArgs)
    /\ HasDemoteKey(bArgs[bk][2], bFlatten)
    /\ DuplicateName(bArgs[bk][1], bProcessed)
    /\ bpc' = "ValueError_duplicate"
    /\ UNCHANGED <<bArgs, bFlatten, bk, bData, bProcessed, bAttrs, bDict, bCells>>

\* no tuple holds the upper-cased type: TypeError (lines 178-179)
BufferTypeError ==
    /\ bpc = "loop" /\ bk <= Len(bArgs)
    /\ HasDemoteKey(bArgs[bk][2], bFlatten)
    /\ ~DuplicateName(bArgs[bk][1], bProcessed)
    /\ CellKind(Upper(Demoted(bArgs[bk][2], bFlatten))) = ""
    /\ bProcessed' = Append(bProcessed, bArgs[bk][1])
    /\ bpc' = "TypeError"
    /\ UNCHANGED <<bArgs, bFlatten, bk, bData, bAttrs, bDict, bCells>>

\* the cell is made, then the name is refused: ValueError (lines 180-183)
BufferIllegalName ==
    /\ bpc = "loop" /\ bk <= Len(bArgs)
    /\ HasDemoteKey(bArgs[bk][2], bFlatten)
    /\ ~DuplicateName(bArgs[bk][1], bProcessed)
    /\ LET kind == CellKind(Upper(Demoted(bArgs[bk][2], bFlatten))) IN
       /\ kind # ""
       /\ ~NameAllowed(bArgs[bk][1])
       /\ bData' = DictSet(bData, bArgs[bk][1], kind)
       /\ bCells' = Append(bCells, <<bk, bArgs[bk][1], kind>>)
    /\ bProcessed' = Append(bProcessed, bArgs[bk][1])
    /\ bpc' = "ValueError_illegal"
    /\ UNCHANGED <<bArgs, bFlatten, bk, bAttrs, bDict>>

\* the cell is made and set as an attribute; on to the next declaration
BufferAccept ==
    /\ bpc = "loop" /\ bk <= Len(bArgs)
    /\ HasDemoteKey(bArgs[bk][2], bFlatten)
    /\ ~DuplicateName(bArgs[bk][1], bProcessed)
    /\ LET kind == CellKind(Upper(Demoted(bArgs[bk][2], bFlatten))) IN
       /\ kind # ""
       /\ NameAllowed(bArgs[bk][1])
       /\ bData' = DictSet(bData, bArgs[bk][1], kind)
       /\ bCells' = Append(bCells, <<bk, bArgs[bk][1], kind>>)
       /\ bAttrs' = bAttrs \cup {<<bArgs[bk][1], kind>>}
    /\ bProcessed' = Append(bProcessed, bArgs[bk][1])
    /\ bk' = bk + 1
    /\ UNCHANGED <<bArgs, bFlatten, bpc, bDict>>

\* dict.__init__(self, data) (line 184)
BufferFinish ==
    /\ bpc = "loop" /\ bk > Len(bArgs)
    /\ bDict' = bData
    /\ bpc' = "built"
    /\ UNCHANGED <<bArgs, bFlatten, bk, bData, bProcessed, bAttrs, bCells>>

\* ======================================================= split_norm_shape
\* A histogram with N bins is the sequence of its N + 2 bin contents: bin 0
\* (underflow) first, bin N + 1 (overflow) last.  Integral returns a double
\* and `/` on doubles is true division; the model computes with exact
\* fractions <<numerator, denominator>> in lowest terms, denominator > 0.
RECURSIVE Gcd(_, _)
Gcd(a, b) == IF b = 0 THEN a ELSE Gcd(b, a % b)
Abs(x) == IF x < 0 THEN 0 - x ELSE x
Frac(n, d) ==
    LET g == Gcd(Abs(n), Abs(d))
        s == IF d < 0 THEN 0 - 1 ELSE 1
    IN <<(s * n) \div g, (s * d) \div g>>
FracMul(q, x) == Frac(q[1] * x, q[2])
FracAdd(p, q) == Frac(p[1] * q[2] + q[1] * p[2], p[2] * q[2])

\* h.GetNbinsX()
GetNbinsX(h) == Len(h) - 2

\* h.Integral(lo, hi): the sum of the contents of bins lo..hi
RECURSIVE Integral(_, _, _)
Integral(h, lo, hi) ==
    IF lo > hi THEN 0 ELSE h[lo + 1] + Integral(h, lo + 1, hi)

\* h.Integral(0, h.GetNbinsX() + 1) (lines 185-187)
VisibleIntegral(h) == Integral(h, 1, GetNbinsX(h))
FullIntegral(h) == Integral(h, 0, GetNbinsX(h) + 1)

\* the factor n_nominal / n_side given to Scale (lines 188-189)
ScaleFactor(n_nominal, n_side) == Frac(n_nominal, n_side)

\* h.Scale(c): every bin content times c
Scale(h, c) == [j \in DOMAIN h |-> FracMul(c, h[j])]

\* the OverallSys value n_side / n_nominal (lines 192-193)
NormValue(n_side, n_nominal) == Frac(n_side, n_nominal)

\* The histograms the split is tried on: 1..MaxBins bins with contents in
\* BinContents, the underflow and overflow bins with contents in FlowContents.
BinContents == {0, 1, 2}
FlowContents == {0, 1}
Histograms ==
    UNION {{h \in [1..(n + 2) -> BinContents] :
              h[1] \in FlowContents /\ h[n + 2] \in FlowContents} :
           n \in 1..MaxBins}

NoResult == [status |-> "pending", low |-> <<0, 1>>, high |-> <<0, 1>>,
             shapeLow |-> <<>>, shapeHigh |-> <<>>]

SplitInit ==
    /\ hNominal \in Histograms
    /\ hUp \in Histograms
    /\ hDn \in Histograms
    /\ sOut = NoResult

SplitIdle ==
    /\ hNominal = <<>>
    /\ hUp = <<>>
    /\ hDn = <<>>
    /\ sOut = NoResult

\* split_norm_shape returns (norm, shape) (lines 181-194)
SplitReturn ==
    /\ sOut.status = "pending"
    /\ LET n_nominal == FullIntegral(hNominal)
           n_up == FullIntegral(hUp)
           n_dn == FullIntegral(hDn)
       IN /\ n_up # 0 /\ n_dn # 0 /\ n_nominal # 0
          /\ sOut' = [status |-> "returned",
                      low |-> NormValue(n_dn, n_nominal),
                      high |-> NormValue(n_up, n_nominal),
                      shapeLow |-> Scale(hDn, ScaleFactor(n_nominal, n_dn)),
                      shapeHigh |-> Scale(hUp, ScaleFactor(n_nominal, n_up))]
    /\ UNCHANGED <<hNominal, hUp, hDn>>

\* a division by a zero integral raises ZeroDivisionError (lines 188-193)
SplitRaise ==
    /\ sOut.status = "pending"
    /\ \/ FullIntegral(hUp) = 0
       \/ FullIntegral(hDn) = 0
       \/ FullIntegral(hNominal) = 0
    /\ sOut' = [sOut EXCEPT !.status = "ZeroDivisionError"]
    /\ UNCHANGED <<hNominal, hUp, hDn>>

\* ==================================================== workspace functions
\* keepalive(nanny, obj): nanny holds a reference to obj while it lives
KeepAlive(k, w, m) == k \cup {<<w, m>>}

\* a measurement stays alive while the caller or a live workspace holds it
Kept(k, wl, m) == \E w \in DOMAIN wl : wl[w].alive /\ <<w, m>> \in k

WorkspaceInit ==
    /\ meas = <<>>
    /\ ws = <<>>
    /\ keep = {}

\* make_measurement (lines 43-84): a new measurement, held by the caller
MakeMeasurement ==
    /\ Len(meas) < MaxMeasurements
    /\ meas' = Append(meas, [held |-> TRUE, alive |-> TRUE])
    /\ UNCHANGED <<ws, keep>>

\* measurements_from_xml(filename) (lines 147-168) on a file that defines n
\* measurements: n new measurements (clones, line 163), held by the caller
MeasurementsFromXml(n) ==
    /\ Len(meas) + n <= MaxMeasurements
    /\ meas' = meas \o [j \in 1..n |-> [held |-> TRUE, alive |-> TRUE]]
    /\ UNCHANGED <<ws, keep>>

\* make_models(measurement) (lines 87-98)
MakeModels(m) ==
    /\ m \in DOMAIN meas /\ meas[m].held
    /\ Len(ws) < MaxWorkspaces
    /\ ws' = Append(ws, [source |-> m, via |-> "make_models",
                         channel |-> "None", name |-> "", alive |-> TRUE])
    /\ UNCHANGED <<meas, keep>>

\* make_model(measurement, channel) (lines 101-121)
MakeModel(m, ch) ==
    /\ m \in DOMAIN meas /\ meas[m].held
    /\ Len(ws) < MaxWorkspaces
    /\ ws' = Append(ws, [source |-> m, via |-> "make_model",
                         channel |-> ch, name |-> "", alive |-> TRUE])
    /\ keep' = KeepAlive(keep, Len(ws) + 1, m)
    /\ UNCHANGED meas

\* make_workspace(name, channels) (lines 124-144): make_measurement, then
\* make_model on it, then SetName; returns (workspace, measurement)
MakeWorkspace ==
    /\ Len(meas) < MaxMeasurements
    /\ Len(ws) < MaxWorkspaces
    /\ meas' = Append(meas, [held |-> TRUE, alive |-> TRUE])
    /\ ws' = Append(ws, [source |-> Len(meas) + 1, via |-> "make_workspace",
                         channel |-> "None", name |-> "workspace_",
                         alive |-> TRUE])
    /\ keep' = KeepAlive(keep, Len(ws) + 1, Len(meas) + 1)

\* the caller drops its reference to a measurement; with no other reference
\* the measurement is freed
ReleaseMeasurement(m) ==
    /\ m \in DOMAIN meas /\ meas[m].held
    /\ meas' = [meas EXCEPT ![m] = [held |-> FALSE,
                                    alive |-> Kept(keep, ws, m)]]
    /\ UNCHANGED <<ws, keep>>

\* a workspace is freed, and with it the references it holds
ReleaseWorkspace(w) ==
    /\ w \in DOMAIN ws /\ ws[w].alive
    /\ ws' = [ws EXCEPT ![w].alive = FALSE]
    /\ keep' = {p \in keep : p[1] # w}
    /\ meas' = [m \in DOMAIN meas |->
                  [meas[m] EXCEPT !.alive =
                     meas[m].alive /\ (meas[m].held \/ Kept(keep', ws', m))]]

\* ---------------------------------------------------------- specifications
\* Tree.__iter__
InitTree == TreeInit /\ ChainIdle /\ BufferIdle /\ SplitIdle /\ WorkspaceInit
NextTree ==
    \/ TreeIter /\ UNCHANGED <<chainVars, bufferVars, splitVars, wsVars>>
    \/ \E g \in 1..MaxGens :
          TreeNext(g) /\ UNCHANGED <<chainVars, bufferVars, splitVars, wsVars>>
SpecTree == InitTree /\ [][NextTree]_vars

\* TreeChain
InitChain == ChainInit /\ TreeIdle /\ BufferIdle /\ SplitIdle /\ WorkspaceInit
notChain == <<treeVars, bufferVars, splitVars, wsVars>>
NextChain ==
    \/ ChainConstruct /\ UNCHANGED notChain
    \/ ChainIter /\ UNCHANGED notChain
    \/ \E g \in 1..MaxIters : ChainEnter(g) /\ UNCHANGED notChain
    \/ \E g \in 1..MaxIters : ChainResume(g) /\ UNCHANGED notChain
    \/ InitializeReset /\ UNCHANGED notChain
    \/ InitializeSelect /\ UNCHANGED notChain
    \/ InitializeOverflow /\ UNCHANGED notChain
    \/ InitializeExhausted /\ UNCHANGED notChain
    \/ ChainStop /\ UNCHANGED notChain
    \/ ChainRaise /\ UNCHANGED notChain
    \/ SkipUnopened /\ UNCHANGED notChain
    \/ SkipNoTree /\ UNCHANGED notChain
    \/ SkipNoBranches /\ UNCHANGED notChain
    \/ SkipMissingBranch /\ UNCHANGED notChain
    \/ InitializeAccept /\ UNCHANGED notChain
    \/ ChainYield /\ UNCHANGED notChain
    \/ ChainTreeDone /\ UNCHANGED notChain
    \/ ChainCrash /\ UNCHANGED notChain
SpecChain == InitChain /\ [][NextChain]_vars

\* TreeBuffer.__init__
InitBuffer == BufferInit /\ TreeIdle /\ ChainIdle /\ SplitIdle /\ WorkspaceInit
notBuffer == <<treeVars, chainVars, splitVars, wsVars>>
NextBuffer ==
    \/ BufferKeyError /\ UNCHANGED notBuffer
    \/ BufferDuplicate /\ UNCHANGED notBuffer
    \/ BufferTypeError /\ UNCHANGED notBuffer
    \/ BufferIllegalName /\ UNCHANGED notBuffer
    \/ BufferAccept /\ UNCHANGED notBuffer
    \/ BufferFinish /\ UNCHANGED notBuffer
SpecBuffer == InitBuffer /\ [][NextBuffer]_vars

\* split_norm_shape
InitSplit == SplitInit /\ TreeIdle /\ ChainIdle /\ BufferIdle /\ WorkspaceInit
notSplit == <<treeVars, chainVars, bufferVars, wsVars>>
NextSplit ==
    \/ SplitReturn /\ UNCHANGED notSplit
    \/ SplitRaise /\ UNCHANGED notSplit
SpecSplit == InitSplit /\ [][NextSplit]_vars

\* make_models, make_model, make_workspace
InitWorkspace == WorkspaceInit /\ TreeIdle /\ ChainIdle /\ BufferIdle /\ SplitIdle
notWorkspace == <<treeVars, chainVars, bufferVars, splitVars>>
NextWorkspace ==
    \/ MakeMeasurement /\ UNCHANGED notWorkspace
    \/ \E n \in 1..MaxMeasurements :
          MeasurementsFromXml(n) /\ UNCHANGED notWorkspace
    \/ \E m \in 1..MaxMeasurements : MakeModels(m) /\ UNCHANGED notWorkspace
    \/ \E m \in 1..MaxMeasurements, ch \in {"None", "channel_a"} :
          MakeModel(m, ch) /\ UNCHANGED notWorkspace
    \/ MakeWorkspace /\ UNCHANGED notWorkspace
    \/ \E m \in 1..MaxMeasurements :
          ReleaseMeasurement(m) /\ UNCHANGED notWorkspace
    \/ \E w \in 1..MaxWorkspaces :
          ReleaseWorkspace(w) /\ UNCHANGED notWorkspace
SpecWorkspace == InitWorkspace /\ [][NextWorkspace]_vars

\* ================================================================= claims
\* ------------------------------------------------------------------ Tree
\* TTree::GetEntry returns the number of bytes it read: index i of the tree
\* is readable when that is positive; 0 says the entry does not exist and
\* -1 that reading it failed.
Readable(reads, i) == i + 1 \in DOMAIN reads /\ reads[i + 1] > 0

\* C5: every iteration of a Tree reads the indices 0, 1, 2, ... in order
\* and without gaps, yields once for each index it read as readable, and
\* ends at the first unreadable index, which is the last index it reads;
\* every iteration starts at index 0 whatever the others have done.
C5_TreeIteration ==
    \A g \in DOMAIN gens :
      LET G == gens[g]
          n == Len(G.reads)
      IN /\ G.reads = [j \in 1..n |-> j - 1]
         /\ \A j \in 1..(n - 1) : Readable(tReads, G.reads[j])
         /\ G.yields = SelectSeq(G.reads, LAMBDA i : Readable(tReads, i))
         /\ G.pc = "created" => n = 0
         /\ G.pc = "yielded" => n > 0 /\ Readable(tReads, G.reads[n])
                                      /\ Len(G.yields) = n
         /\ G.pc = "done" => n > 0 /\ ~Readable(tReads, G.reads[n])
                                   /\ Len(G.yields) = n - 1

\* ------------------------------------------------------------- TreeChain
\* A file is defective for a chain when it cannot be opened, lacks the
\* tree, has a tree without branches or lacks a branch of the buffer.
Defective(f, b) ==
    \/ ~Disk(f).opens
    \/ ~Disk(f).hasTree
    \/ Disk(f).branches = {}
    \/ b[1] = "buffer" /\ ~(b[2] \subseteq Disk(f).branches)

\* the row indices of a file's tree, in order
RowsOf(f) == [j \in 1..Len(Disk(f).reads) |-> j - 1]

\* the rows a file at position p of the list is to contribute
Contribution(p) ==
    IF Defective(orig[p], argBuffer) THEN <<>>
    ELSE [j \in 1..Len(RowsOf(orig[p])) |-> <<p, orig[p], RowsOf(orig[p])[j]>>]

\* the rows among rs that were yielded from the file at position p of the list
YieldedFrom(rs, p) == SelectSeq(rs, LAMBDA r : r[1] = p)

IsPrefix(s, t) == Len(s) <= Len(t) /\ \A j \in 1..Len(s) : s[j] = t[j]

Constructed == cpc \notin {"idle", "new", "ValueError"}

\* generator g is past the row loop of the last file it took
PastLastFile(g) ==
    \/ cgens[g].pc = "done"
    \/ active = g /\ cpc \in {"reset", "select", "stop"}

\* C3: in every iteration of a chain that no other iteration of the same
\* chain has cut into, a defective file contributes no rows and a file
\* without a defect contributes its rows, all of them once the iteration
\* has moved on; the iteration never fails, whatever the list, it ends
\* only when every file of the list has been attempted, and then every
\* file it attempted has contributed all or nothing according to its defect.
C3_SkipDefective ==
    Constructed =>
      \A g \in DOMAIN cgens :
        LET G == cgens[g] IN
        G.clean =>
          /\ G.pc \notin {"crashed", "RuntimeError"}
          /\ \A r \in Range(G.rows) : r[1] \in Range(G.taken)
          /\ \A p \in Range(G.taken) :
               /\ IsPrefix(YieldedFrom(G.rows, p), Contribution(p))
               /\ (p # Last(G.taken) \/ PastLastFile(g))
                    => YieldedFrom(G.rows, p) = Contribution(p)
          /\ G.pc = "done" =>
               /\ heap[self["files"][2]] = <<>>
               /\ Range(popped) = 1..Len(orig)

\* C4: at most one file is open at any time, and it is the chain's current
\* file; no file is open when the next one is about to be opened; once an
\* iteration has run to exhaustion no file is open and the chain holds no
\* tree and no file.
C4_OneOpenFile ==
    Constructed =>
      /\ Cardinality(openHandles) <= 1
      /\ \A h \in openHandles :
           self["file"][1] = "File" /\ self["file"][2] = h
      /\ cpc = "select" => openHandles = {} /\ self["file"] = None
      /\ (cpc = "stop" \/ exhausted) => /\ openHandles = {}
                                        /\ self["tree"] = None
                                        /\ self["file"] = None

\* C4 witness: a second iteration, cutting in on a first one that is
\* suspended in the row loop of one file, has closed that file and opened
\* the other file of the list.
C4_Witness ==
    /\ cpc = "validate"
    /\ active = 2
    /\ cgens[1].pc = "yielded" /\ cgens[1].tree[2] = 0
    /\ nOpened = 2
    /\ openHandles = {1}

\* the contributions of the files at positions p.. of the list, in list order
RECURSIVE ConcatFrom(_)
ConcatFrom(p) ==
    IF p > Len(orig) THEN <<>> ELSE Contribution(p) \o ConcatFrom(p + 1)

\* a row as the consumer sees it: its file and its row index
Observed(rs) == [j \in DOMAIN rs |-> <<rs[j][2], rs[j][3]>>]

\* C8: the rows that the only iteration of a chain has yielded when it ran
\* to exhaustion, each seen as its file and row index, are the
\* contributions of the files in the order of the list, first file first.
C8_ListOrder ==
    (Len(cgens) = 1 /\ cgens[1].pc = "done")
       => Observed(cgens[1].rows) = Observed(ConcatFrom(1))

\* C9: once TreeChain(...) has returned, the chain's attribute of every
\* branch name of the buffer is the buffer's cell of that name.
C9_BranchAttributes ==
    (Constructed /\ BufferTruth(argBuffer)) =>
      \A n \in Items(argBuffer) :
        n \in DOMAIN self /\ self[n] = Cell(n)

\* the pops whose File() call the interpreter refused
Refused ==
    Cardinality({g \in DOMAIN cgens : cgens[g].pc = "RuntimeError"})
      + (IF cpc = "RuntimeError" THEN 1 ELSE 0)

\* C10: the chain consumes the list it was given: every entry is popped at
\* most once and opened once when popped (never, when the interpreter
\* refuses the call that opens it), each pop shortens the list by one, the
\* list the chain pops from is the caller's own list object, it is empty
\* once an iteration has run to exhaustion, and an iteration started after
\* that yields no rows.
C10_ConsumesList ==
    Constructed =>
      LET r == self["files"][2] IN
      /\ argFiles[1] = "list" => r = argFiles[2]
      /\ NoDup(popped)
      /\ nOpened + Refused = Len(popped)
      /\ Len(heap[r]) + Len(popped) = Len(orig)
      /\ exhausted => heap[r] = <<>>
      /\ (exhausted /\ argFiles[1] = "list") => heap[argFiles[2]] = <<>>
      /\ \A g \in DOMAIN cgens : cgens[g].late => cgens[g].rows = <<>>

\* C10 witness: a second iteration, started after the first exhausted a
\* list of two files, has ended.
C10_Witness ==
    /\ Len(cgens) = 2
    /\ cgens[1].pc = "done" /\ Len(cgens[1].rows) > 0
    /\ cgens[2].pc = "done" /\ cgens[2].late
    /\ argFiles[1] = "list"
    /\ Len(orig) = 2
    /\ Len(popped) = 2

\* ------------------------------------------------------------ TreeBuffer
\* What a type spelling names, read without regard to letter case: the
\* element type and the nesting depth (0 scalar, 1 vector, 2 vector of
\* vector).  depth -1 stands for a spelling that names nothing.
NamedType(sp) ==
    LET u == [j \in DOMAIN sp |-> UpperChar(sp[j])] IN
    CASE u \in {<<"I">>, <<"I", "N", "T", "_", "T">>}
           -> [elem |-> "int", depth |-> 0]
      [] u \in {<<"U", "I">>, <<"U", "I", "N", "T", "_", "T">>}
           -> [elem |-> "uint", depth |-> 0]
      [] u \in {<<"F">>, <<"F", "L", "O", "A", "T", "_", "T">>}
           -> [elem |-> "float", depth |-> 0]
      [] u \in {<<"V", "I">>, Upper(T_vint)}
           -> [elem |-> "int", depth |-> 1]
      [] u \in {<<"V", "F">>, Upper(T_vfloat)}
           -> [elem |-> "float", depth |-> 1]
      [] u \in {<<"V", "V", "I">>, Upper(T_vvint)}
           -> [elem |-> "int", depth |-> 2]
      [] u \in {<<"V", "V", "F">>, Upper(T_vvfloat)}
           -> [elem |-> "float", depth |-> 2]
      [] OTHER -> [elem |-> "", depth |-> 0 - 1]

\* the cell kind of an element type at a nesting depth
KindAt(elem, depth) ==
    CASE depth = 0 /\ elem = "int"   -> "Int"
      [] depth = 0 /\ elem = "uint"  -> "UInt"
      [] depth = 0 /\ elem = "float" -> "Float"
      [] depth = 1 -> IF elem = "int" THEN "vector<int>" ELSE "vector<float>"
      [] OTHER -> IF elem = "int" THEN "vector<vector<int> >"
                  ELSE "vector<vector<float> >"

\* the kind of cell a recognized spelling is to get: the kind it names, one
\* nesting level lower under flatten (a scalar has no lower level)
ExpectedKind(sp, flatten) ==
    LET t == NamedType(sp) IN
    KindAt(t.elem, IF flatten /\ t.depth > 0 THEN t.depth - 1 ELSE t.depth)

BufferFailed ==
    bpc \in {"KeyError", "ValueError_duplicate", "TypeError",
             "ValueError_illegal"}

\* C2: with or without flatten, the cell made for a declaration whose
\* spelling is a recognized one has the kind expected of that spelling.
C2_CellKinds ==
    \A c \in Range(bCells) :
      NamedType(bArgs[c[1]][2]).depth >= 0
        => c[3] = ExpectedKind(bArgs[c[1]][2], bFlatten)

\* the index of the second occurrence of the first name to occur twice
HasDuplicate(args) ==
    \E i, j \in DOMAIN args : i < j /\ args[i][1] = args[j][1]
SecondOccurrence(args) ==
    CHOOSE j \in DOMAIN args :
      /\ \E i \in 1..(j - 1) : args[i][1] = args[j][1]
      /\ \A m \in 1..(j - 1) :
           ~(\E i \in 1..(m - 1) : args[i][1] = args[m][1])

\* a declaration the loop body accepts when its name is new
Accepted(decl, flatten) ==
    /\ decl[1] \notin Methods
    /\ ~(Len(decl[1]) > 0 /\ decl[1][1] = "_")
    /\ IF flatten THEN \E j \in DOMAIN demotePairs : demotePairs[j][1] = decl[2]
       ELSE NamedType(decl[2]).depth >= 0

\* C6 as stated: construction from declarations with a repeated name ends
\* with the duplicate-name error, no cell is made for the second
\* occurrence, and the buffer gets no dictionary entries.
C6_DuplicateError ==
    HasDuplicate(bArgs) =>
      /\ bpc # "built"
      /\ BufferFailed => bpc = "ValueError_duplicate"
      /\ \A c \in Range(bCells) : c[1] < SecondOccurrence(bArgs)
      /\ bDict = {}

\* C6 amended: construction from declarations with a repeated name never
\* builds a buffer: it ends with the first error met in declaration order,
\* at or before the second occurrence; no cell is made for the second
\* occurrence and the buffer gets no dictionary entries; the error is the
\* duplicate-name error exactly when every declaration before the second
\* occurrence is accepted and, under flatten, the second occurrence's type
\* is a key of demote.
C6_DuplicateFails ==
    HasDuplicate(bArgs) =>
      LET j2 == SecondOccurrence(bArgs) IN
      /\ bpc \in {"loop", "KeyError", "ValueError_duplicate", "TypeError",
                  "ValueError_illegal"}
      /\ bk <= j2
      /\ \A c \in Range(bCells) : c[1] < j2
      /\ bDict = {}
      /\ BufferFailed =>
           (bpc = "ValueError_duplicate"
              <=> /\ bk = j2
                  /\ \A i \in 1..(j2 - 1) : Accepted(bArgs[i], bFlatten)
                  /\ bFlatten =>
                       \E j \in DOMAIN demotePairs :
                         demotePairs[j][1] = bArgs[j2][2])
      /\ (bpc = "loop" /\ bk = j2) =>
           \A i \in 1..(j2 - 1) : Accepted(bArgs[i], bFlatten)

\* C6 witness: the first declaration was accepted and its cell made, and
\* construction ended with the duplicate-name error at the second.
C6_Witness ==
    /\ Len(bArgs) = 2
    /\ bArgs[1][1] = bArgs[2][1]
    /\ bpc = "ValueError_duplicate"
    /\ bk = 2
    /\ Len(bCells) = 1
    /\ bDict = {}

\* ------------------------------------------------------ split_norm_shape
\* the sum of all bin contents of a histogram, underflow and overflow
\* included
RECURSIVE Total(_)
Total(h) == IF h = <<>> THEN 0 ELSE h[1] + Total(Tail(h))

\* the sum of a sequence of fractions
RECURSIVE FracTotal(_)
FracTotal(q) ==
    IF q = <<>> THEN <<0, 1>> ELSE FracAdd(q[1], FracTotal(Tail(q)))

\* the fraction q equals a / b
FracIs(q, a, b) == q[1] * b = a * q[2]

\* C1: for histograms with positive integrals over all bins the split
\* returns; the normalization's high and low are integral(up) and
\* integral(down) over integral(nominal); each bin of a shape side is the
\* side's bin times integral(nominal) / integral(side); and each shape
\* side integrates to integral(nominal).
C1_SplitNormShape ==
    (sOut.status # "pending"
       /\ Total(hNominal) > 0 /\ Total(hUp) > 0 /\ Total(hDn) > 0) =>
      /\ sOut.status = "returned"
      /\ FracIs(sOut.high, Total(hUp), Total(hNominal))
      /\ FracIs(sOut.low, Total(hDn), Total(hNominal))
      /\ DOMAIN sOut.shapeHigh = DOMAIN hUp
      /\ DOMAIN sOut.shapeLow = DOMAIN hDn
      /\ \A j \in DOMAIN hUp :
           FracIs(sOut.shapeHigh[j], hUp[j] * Total(hNominal), Total(hUp))
      /\ \A j \in DOMAIN hDn :
           FracIs(sOut.shapeLow[j], hDn[j] * Total(hNominal), Total(hDn))
      /\ FracIs(FracTotal(sOut.shapeHigh), Total(hNominal), 1)
      /\ FracIs(FracTotal(sOut.shapeLow), Total(hNominal), 1)

\* C1 witness: a split has returned for sides whose integrals differ from
\* the nominal one and whose underflow or overflow bins are filled.
C1_Witness ==
    /\ sOut.status = "returned"
    /\ Total(hNominal) = 2 /\ Total(hUp) = 3 /\ Total(hDn) = 1
    /\ hUp[1] = 1 /\ hDn[Len(hDn)] = 1 /\ hNominal[1] = 1
    /\ sOut.high = <<3, 2>> /\ sOut.low = <<1, 2>>

\* ------------------------------------------------------------ workspaces
\* C7: every live workspace holds a reference to the measurement it was
\* built from, which therefore is alive.
C7_KeepsMeasurement ==
    \A w \in DOMAIN ws :
      ws[w].alive => /\ <<w, ws[w].source>> \in keep
                     /\ meas[ws[w].source].alive

====
